---- MODULE Spec2Model ----
(***************************************************************************)
(* WUMaCat scripts: the light-curve folding batch of                       *)
(* scripts/create_lc_for_elisa.py (find_jdmin and                          *)
(* fold_and_normalize_lightcurves) and the catalog-epoch loop of           *)
(* scripts/take_epoch_from_vsx.py.                                         *)
(*                                                                         *)
(* Numbers.  The scripts compute in IEEE binary floating point (numpy      *)
(* float64).  The model keeps the format's structure at a reduced width:   *)
(* a finite value is an integer count of 2^-FracBits, representable when   *)
(* its magnitude has at most MantBits significant bits, and every          *)
(* arithmetic operation returns the exact result rounded to the nearest    *)
(* representable value, ties to the even mantissa.  Infinities and NaN are *)
(* separate values.  The exponent range is not bounded above (no overflow  *)
(* to infinity) and has no signed zero.                                    *)
(***************************************************************************)
EXTENDS Integers, Sequences, FiniteSets, TLC

\* ------------------------------------------------------------------ bounds
\* Fraction bits of the reduced float format: 1.0 is 2^FracBits units.
FracBits == 3
\* Significant bits of the reduced float format (float64 has 53).
MantBits == 2
\* Longest light-curve table of the single-object specification.
MaxLen == 3
\* Most rows of the input table of the batch specification.
MaxRows == 2
\* Most rows of the table given to take_epoch_from_vsx.
MaxVsxRows == 3
\* The largest whole number of periods between two samples folded together.
MaxK == 2
\* The most rows of a data frame given to filter_dataframe.
MaxDfRows == 2
\* The most entries of a filter dictionary.
MaxFilters == 2
\* The most rows of a table given to retrieve_coord_from_simbad.
MaxSimbadRows == 2

\* ------------------------------------------------------- float arithmetic
\* F applied to the values of its arguments, each evaluated once.
Strict1(F(_), x) == CHOOSE r \in {F(a) : a \in {x}} : TRUE
Strict2(F(_, _), x, y) == CHOOSE r \in {F(a, b) : a \in {x}, b \in {y}} : TRUE
Strict3(F(_, _, _), x, y, z) ==
    CHOOSE r \in {F(a, b, c) : a \in {x}, b \in {y}, c \in {z}} : TRUE

One == 2 ^ FracBits
PosInf == 2 ^ (FracBits + MantBits + 12)
NegInf == 0 - PosInf
NaN == PosInf + 1

IsNaN(x) == x = NaN
IsInf(x) == x = PosInf \/ x = NegInf
IsFinite(x) == ~IsNaN(x) /\ ~IsInf(x)

Abs(n) == IF n < 0 THEN 0 - n ELSE n
Sign(n) == IF n < 0 THEN 0 - 1 ELSE 1

\* The distance between neighbouring representable values at magnitude q:
\* 2^(floor(log2 q) - MantBits + 1), and 1 below 2^MantBits.
Spacing(q) ==
    IF q < 2 ^ MantBits THEN 1
    ELSE 2 ^ ((CHOOSE e \in 0..(FracBits + MantBits + 14) :
                  2 ^ e <= q /\ q < 2 ^ (e + 1)) - MantBits + 1)

Representable(n) == Abs(n) % Spacing(Abs(n)) = 0

\* RoundQ on values: a the magnitude of the numerator, sp the spacing at the
\* quotient, lo the representable value at or below the quotient.
RoundPick(a, den, sp, lo) ==
    IF \/ 2 * (a - lo * den) > sp * den
       \/ (2 * (a - lo * den) = sp * den /\ (lo \div sp) % 2 = 1)
    THEN lo + sp
    ELSE lo

RoundAt(a, den, sp) ==
    CHOOSE r \in {RoundPick(a, den, sp, lo) :
                      lo \in {(a \div (den * sp)) * sp}} : TRUE

RoundMag(a, den) == Strict3(RoundAt, a, den, Spacing(a \div den))

RoundVal(num, den) == Sign(num) * RoundMag(Abs(num), den)

\* The representable value nearest to the rational num/den (den > 0), in
\* units of 2^-FracBits; a tie goes to the neighbour with the even mantissa.
RoundQ(num, den) == Strict2(RoundVal, num, den)

AddVal(a, b) ==
    IF IsNaN(a) \/ IsNaN(b) THEN NaN
    ELSE IF IsInf(a) THEN (IF IsInf(b) /\ a # b THEN NaN ELSE a)
    ELSE IF IsInf(b) THEN b
    ELSE RoundQ(a + b, 1)

FAdd(a, b) == Strict2(AddVal, a, b)

FNeg(a) == IF IsNaN(a) THEN NaN ELSE 0 - a

SubVal(a, b) == AddVal(a, FNeg(b))

FSub(a, b) == Strict2(SubVal, a, b)

MulVal(a, b) ==
    IF IsNaN(a) \/ IsNaN(b) THEN NaN
    ELSE IF IsInf(a) \/ IsInf(b)
         THEN (IF a = 0 \/ b = 0 THEN NaN
               ELSE IF Sign(a) = Sign(b) THEN PosInf ELSE NegInf)
    ELSE RoundQ(a * b, One)

FMul(a, b) == Strict2(MulVal, a, b)

DivVal(a, b) ==
    IF IsNaN(a) \/ IsNaN(b) THEN NaN
    ELSE IF IsInf(a)
         THEN (IF IsInf(b) THEN NaN
               ELSE IF Sign(a) = Sign(b) THEN PosInf ELSE NegInf)
    ELSE IF IsInf(b) THEN 0
    ELSE IF b = 0
         THEN (IF a = 0 THEN NaN ELSE IF a > 0 THEN PosInf ELSE NegInf)
    ELSE RoundQ(Sign(b) * a * One, Abs(b))

FDiv(a, b) == Strict2(DivVal, a, b)

\* Ordered comparison: false as soon as one side is NaN.
LtVal(a, b) == ~IsNaN(a) /\ ~IsNaN(b) /\ a < b

FLt(a, b) == Strict2(LtVal, a, b)

\* C fmod(a, 1.0) for finite a: exact, with the sign of a.
Fmod1(a) == Sign(a) * (Abs(a) % One)

\* a % 1 as numpy computes it (npy_divmod): fmod, then the divisor is added,
\* in floating point, to a non-zero remainder of the other sign.
Mod1Val(a) ==
    IF ~IsFinite(a) THEN NaN
    ELSE IF Fmod1(a) < 0 THEN FAdd(Fmod1(a), One)
    ELSE Fmod1(a)

Mod1(a) == Strict1(Mod1Val, a)

\* --------------------------------------------------------------- inputs
\* Object names, in the order np.unique sorts them.
Names == {1, 2}
\* Sample times and fluxes of a light curve, in float units; a zero flux
\* is sampled at time 0 only.
JdVals == {0, 1, One}
FluxVals == {1, 2}
\* The period column of the single-object specification: missing/NaN,
\* negative, zero, a quarter, 1.0.
PeriodVals == {NaN, 0 - One, 0, One \div 4, One}
\* The period column of the batch specification: missing/NaN, zero, a
\* quarter, 1.0.
BatchPeriods == {NaN, 0, One \div 4, One}
\* The epoch a row carries from a catalog; NaN when none is supplied.
SuppliedEpochs == {NaN, 1}
\* The location curve_fit can return as popt[1].
FitLocations == {0, 1}

Samples == [jd : JdVals, flux : FluxVals] \cup {[jd |-> 0, flux |-> 0]}
TablesOfLen(n) == [1..n -> Samples]
\* Every light curve of at most MaxLen samples.
AllTables == UNION {TablesOfLen(n) : n \in 0..MaxLen}
\* The light curves of the batch specification: an empty table, a single
\* sample, a dip sampled three times, a flat series.
BatchTables ==
    { <<>>,
      <<[jd |-> 1, flux |-> 1]>>,
      <<[jd |-> 0, flux |-> 2], [jd |-> 1, flux |-> 1], [jd |-> 1, flux |-> 2]>>,
      <<[jd |-> 0, flux |-> 2], [jd |-> 1, flux |-> 2], [jd |-> 1, flux |-> 2]>> }

\* A row of the input table: name, period column, catalog epoch.
BatchRows == [name : Names, P : BatchPeriods, jd_min : SuppliedEpochs]
FoldRows == [name : {1}, P : PeriodVals, jd_min : {NaN}]

\* ------------------------------------------------------------ find_jdmin
\* The maximum of a non-empty sequence of floats.
SeqMax(s) ==
    CHOOSE m \in {s[i] : i \in 1..Len(s)} : \A i \in 1..Len(s) : ~FLt(m, s[i])

\* table['flux'].max() / np.max(flux) of a non-empty table
MaxFlux(table) ==
    Strict1(SeqMax, [i \in 1..Len(table) |-> table[i].flux])

\* y = table['flux'].max() - table['flux']
InvertedFrom(table, top) == [i \in 1..Len(table) |-> FSub(top, table[i].flux)]

Inverted(table) == Strict2(InvertedFrom, table, MaxFlux(table))

\* np.argmax: the first index of the maximum
ArgMaxVal(y) ==
    CHOOSE i \in 1..Len(y) :
        /\ \A j \in 1..Len(y) : ~FLt(y[i], y[j])
        /\ \A j \in 1..(i - 1) : FLt(y[j], y[i])

ArgMax(y) == Strict1(ArgMaxVal, y)

\* The literal 0.2 as the float format holds it.
Fifth == RoundQ(2 * One, 10)

\* initial_guess = [max(y), x[np.argmax(y)], 0.2 * period]
GuessFrom(table, period, y) ==
    <<SeqMax(y), table[ArgMax(y)].jd, FMul(Fifth, period)>>

initial_guess(table, period) == Strict3(GuessFrom, table, period, Inverted(table))

\* mask = (x > guess[1] - 0.2 * period) & (x < guess[1] + 0.2 * period):
\* the indices of the samples the fit sees.
MaskBetween(table, lo, hi) ==
    {i \in 1..Len(table) : FLt(lo, table[i].jd) /\ FLt(table[i].jd, hi)}

MaskAround(table, period, g) ==
    Strict3(MaskBetween, table, FSub(g[2], FMul(Fifth, period)),
            FAdd(g[2], FMul(Fifth, period)))

mask(table, period) ==
    Strict3(MaskAround, table, period, initial_guess(table, period))

\* The number of parameters of gaussian (a, x0, sigma).
NumParams == 3

\* find_jdmin leaves by an exception other than RuntimeError: the column
\* maximum of an empty table (ValueError), curve_fit on an empty window
\* (ValueError) or on fewer samples than parameters (TypeError).  Its
\* "except RuntimeError" does not catch them.
find_jdmin_raises(table, period) ==
    IF Len(table) = 0 THEN TRUE
    ELSE Cardinality(mask(table, period)) < NumParams

\* Python's None.
None == NaN + 1

\* What find_jdmin can return when it does not raise: None when curve_fit
\* raises RuntimeError (no convergence), else popt[1].  The least-squares
\* iteration itself is not computed: either outcome may happen, with any
\* location.
find_jdmin(table, period) == {None} \cup FitLocations

\* ------------------------------------------------- folding (lines 121-131)
\* phase = ((jd - jd_min) / period) % 1; phase[phase < 0] = 1 + phase[phase < 0]
WrapNegative(p) == IF FLt(p, 0) THEN FAdd(One, p) ELSE p

\* A way to fold that takes the size of the offset and drops its sign.
PhaseOfMagnitude(jd, epoch, P) == Mod1(Abs(FDiv(FSub(jd, epoch), P)))

Phase(jd, jd_min, period) ==
    Strict1(WrapNegative, Mod1(FDiv(FSub(jd, jd_min), period)))

\* The flux left as it is: the division by the maximum left out.
RawFlux(flux, top) == flux

\* normalized_flux = flux / np.max(flux)
NormalizedFlux(flux, top) == FDiv(flux, top)

\* Table([jd, flux, phase, normalized_flux], names=[...]) before the sort
FoldedWith(table, epoch, P, top) ==
    [i \in 1..Len(table) |->
        [jd |-> table[i].jd, flux |-> table[i].flux,
         phase |-> Phase(table[i].jd, epoch, P),
         normalized_flux |-> NormalizedFlux(table[i].flux, top)]]

FoldedRows(table, epoch, P) ==
    CHOOSE r \in {FoldedWith(t, e, q, MaxFlux(t)) :
                      t \in {table}, e \in {epoch}, q \in {P}} : TRUE

\* output_table.sort('phase'): Table.argsort with kind=None is numpy's
\* default sort, which is not a stable sort; every index order that puts
\* the phases in ascending order can come out.
ArgSortsVal(rows) ==
    {p \in Permutations(1..Len(rows)) :
        \A i, j \in 1..Len(rows) :
            i < j => ~FLt(rows[p[j]].phase, rows[p[i]].phase)}

\* No sort at all: the rows stay in the order of the input samples.
InputOrder(rows) == {[i \in 1..Len(rows) |-> i]}

ArgSorts(rows) == Strict1(ArgSortsVal, rows)

ApplyIndex(rows, p) == [i \in 1..Len(rows) |-> rows[p[i]]]

\* ------------------------------------------------------------------ state
VARIABLES
    pc,                 \* which program runs and where it is
    input_kind,         \* what input_table_filename turns out to be
    input_table,        \* the rows read from it
    dir_exists,         \* whether lightcurve_dir exists
    unique_names,       \* np.unique(input_table['name'])
    idx,                \* position of the for loop in unique_names
    processed_objects,  \* the list the function returns
    result,             \* "running", "list" or "None"
    written,            \* names whose output curve file has been written
    lc_table,           \* the light curve read for the current object
    period,             \* row[period_column] of the current object
    jd_min,             \* what find_jdmin returned for the current object
    output_table,       \* the rows of the curve written last
    sort_index,         \* the index order output_table.sort applied
    calls,              \* per name: the periods find_jdmin was called with
    fits,               \* per name: how many times curve_fit ran
    outcome,            \* per name: how its loop iteration ended
    vsx_catalog,        \* per name: the epoch the catalog holds, or None
    vsx_names,          \* take_epoch_from_vsx: input_table['name']
    vsx_jd_min,         \* take_epoch_from_vsx: input_table['jd_min']
    vsx_i,              \* take_epoch_from_vsx: the loop index i
    vsx_found,          \* per row: the epoch its own lookup returned
    ph_jd,              \* phase periodicity: the time t of the first sample
    ph_k,               \* the whole number of periods to the second sample
    ph_period,          \* the period
    ph_epoch,           \* the epoch jd_min
    ph_phase,           \* the phases of the two samples, once folded
    csv_rows,           \* filter_dataframe: the rows of the CSV file
    csv_kind,           \* whether the file is there and parses
    df,                 \* the data frame, once read
    filter_items,       \* filter_dict.items(): <<column, filter_value>>
    filter_i,           \* position of the for loop in filter_items
    filtered_rows,      \* the boolean mask
    filtered_df,        \* df[filtered_rows]
    filter_result,      \* "running", "None" or "frame" (filtered_df returned)
    saved,              \* whether the output file was written
    sb_kind,            \* retrieve_coord_from_simbad: what input_data is
    sb_has_cols,        \* whether the input has columns ra and dec
    sb_input,           \* the rows of the input: name, ra, dec
    sb_catalog,         \* per name: the coordinate SIMBAD holds, or NaN
    sb_df,              \* df of the outer call
    sb_sent,            \* the names given to simbad.query_objects
    sb_query,           \* "none", "ok" or "failed": how the query went
    merged_df,          \* merged_df of the call that queried
    sb_calls,           \* how many calls of the function were made
    sb_result,          \* "running", "None", "df" or "merged_df"
    g_input,            \* gaia_cross_match: what input_data is
    g_output,           \* whether output_filename is given
    g_saved,            \* results.write has run
    g_logged_in,        \* Gaia.login has returned
    g_submitted,        \* Gaia.cross_match has returned a job
    g_attempt,          \* attempt of the for loop
    g_waits,            \* how many times time.sleep(wait_time) ran
    g_checks,           \* what each Gaia.load_tables of the loop gave
    g_found,            \* a check found the cross-match table
    g_queried,          \* Gaia.launch_job was called
    g_logouts,          \* how many times Gaia.logout ran
    g_pending,          \* the value a return statement is about to return
    g_result            \* "running", "None" or "results"

foldVars == <<input_kind, input_table, dir_exists, unique_names, idx,
              processed_objects, result, written, lc_table, period, jd_min,
              output_table, sort_index, calls, fits, outcome>>
vsxVars == <<vsx_catalog, vsx_names, vsx_jd_min, vsx_i, vsx_found>>
phaseVars == <<ph_jd, ph_k, ph_period, ph_epoch, ph_phase>>
\* the variables of the programs modelled after these two
filterVars == <<csv_rows, csv_kind, df, filter_items, filter_i,
                filtered_rows, filtered_df, filter_result, saved>>
simbadVars == <<sb_kind, sb_has_cols, sb_input, sb_catalog, sb_df, sb_sent,
                sb_query, merged_df, sb_calls, sb_result>>
gaiaVars == <<g_input, g_output, g_saved, g_logged_in, g_submitted, g_attempt, g_waits, g_checks,
              g_found, g_queried, g_logouts, g_pending, g_result>>
restVars == <<phaseVars, filterVars, simbadVars, gaiaVars>>
\* what the actions of each of these programs leave alone
othersOfPhase == <<foldVars, vsxVars, filterVars, simbadVars, gaiaVars>>
othersOfFilter == <<foldVars, vsxVars, phaseVars, simbadVars, gaiaVars>>
othersOfSimbad == <<foldVars, vsxVars, phaseVars, filterVars, gaiaVars>>
othersOfGaia == <<foldVars, vsxVars, phaseVars, filterVars, simbadVars>>
vars == <<pc, foldVars, vsxVars, restVars>>

\* ------------------------------------ fold_and_normalize_lightcurves
InputKinds == {"ok", "bad_extension", "unreadable", "no_name_column",
               "no_period_column"}

InputTables == UNION {[1..n -> BatchRows] : n \in 0..MaxRows}

NoCalls == [n \in Names |-> <<>>]
NoFits == [n \in Names |-> 0]
NoOutcome == [n \in Names |-> "none"]

PhaseIdle ==
    /\ ph_jd = 0
    /\ ph_k = 0
    /\ ph_period = One
    /\ ph_epoch = 0
    /\ ph_phase = <<>>

FilterIdle ==
    /\ csv_rows = <<>>
    /\ csv_kind = "ok"
    /\ df = <<>>
    /\ filter_items = <<>>
    /\ filter_i = 1
    /\ filtered_rows = <<>>
    /\ filtered_df = <<>>
    /\ filter_result = "running"
    /\ saved = FALSE

SimbadIdle ==
    /\ sb_kind = "ok"
    /\ sb_has_cols = FALSE
    /\ sb_input = <<>>
    /\ sb_catalog = <<>>
    /\ sb_df = <<>>
    /\ sb_sent = <<>>
    /\ sb_query = "none"
    /\ merged_df = <<>>
    /\ sb_calls = 0
    /\ sb_result = "running"

GaiaIdle ==
    /\ g_input = "ok"
    /\ g_output = FALSE
    /\ g_saved = FALSE
    /\ g_logged_in = FALSE
    /\ g_submitted = FALSE
    /\ g_attempt = 0
    /\ g_waits = 0
    /\ g_checks = <<>>
    /\ g_found = FALSE
    /\ g_queried = FALSE
    /\ g_logouts = 0
    /\ g_pending = "none"
    /\ g_result = "running"

RestIdle == PhaseIdle /\ FilterIdle /\ SimbadIdle /\ GaiaIdle

VsxIdle ==
    /\ vsx_catalog = [n \in Names |-> None]
    /\ vsx_names = <<>>
    /\ vsx_jd_min = <<>>
    /\ vsx_i = 0
    /\ vsx_found = <<>>

FoldStart(tables) ==
    /\ pc = "start"
    /\ \/ input_kind = "ok" /\ input_table \in tables
       \/ input_kind # "ok" /\ input_table = <<>>
    /\ dir_exists \in BOOLEAN
    /\ unique_names = <<>>
    /\ idx = 1
    /\ processed_objects = <<>>
    /\ result = "running"
    /\ written = {}
    /\ lc_table = <<>>
    /\ period = NaN
    /\ jd_min = None
    /\ output_table = <<>>
    /\ sort_index = <<>>
    /\ calls = NoCalls
    /\ fits = NoFits
    /\ outcome = NoOutcome
    /\ VsxIdle
    /\ RestIdle

\* The batch: any input table of at most MaxRows rows.
Init == input_kind \in InputKinds /\ FoldStart(InputTables)

\* One object: an input table of one row.
InitFold == input_kind \in InputKinds /\ FoldStart([1..1 -> FoldRows])

\* np.unique: the distinct names in ascending order
RECURSIVE SortedSeq(_)
SortedSeq(S) ==
    IF S = {} THEN <<>>
    ELSE LET m == CHOOSE a \in S : \A b \in S : a <= b
         IN  <<m>> \o SortedSeq(S \ {m})

\* The name column as it is, one entry per row, duplicates kept.
AllNames(table) == [i \in 1..Len(table) |-> table[i].name]

Unique(table) == SortedSeq({table[i].name : i \in 1..Len(table)})

\* input_table[input_table['name'] == name][0]
FirstRow(name) ==
    input_table[CHOOSE i \in 1..Len(input_table) :
                    /\ input_table[i].name = name
                    /\ \A j \in 1..(i - 1) : input_table[j].name # name]

name == unique_names[idx]

InLoop == pc = "loop" /\ idx <= Len(unique_names)

\* lines 56-81: read the table, check its columns, list the names
ReadInput ==
    /\ pc = "start"
    /\ IF input_kind = "ok"
       THEN /\ pc' = "loop"
            /\ unique_names' = Unique(input_table)
            /\ UNCHANGED result
       ELSE /\ pc' = "done"
            /\ result' = "None"
            /\ UNCHANGED unique_names
    /\ UNCHANGED <<input_kind, input_table, dir_exists, idx, processed_objects,
                   written, lc_table, period, jd_min, output_table, sort_index,
                   calls, fits, outcome, vsxVars, restVars>>

\* "continue": the iteration ends with no curve and the loop moves on
Skip(how) ==
    /\ idx' = idx + 1
    /\ outcome' = [outcome EXCEPT ![name] = how]
    /\ UNCHANGED <<pc, input_kind, input_table, dir_exists, unique_names,
                   processed_objects, result, written, output_table,
                   sort_index, vsxVars, restVars>>

\* an exception that leaves the for loop: "return None"
Abort(how) ==
    /\ pc' = "done"
    /\ result' = "None"
    /\ outcome' = [outcome EXCEPT ![name] = how]
    /\ UNCHANGED <<input_kind, input_table, dir_exists, unique_names, idx,
                   processed_objects, written, output_table, sort_index,
                   vsxVars, restVars>>

\* lines 89, 138-140: os.listdir raises FileNotFoundError
DirectoryNotFound ==
    /\ InLoop
    /\ ~dir_exists
    /\ period' = FirstRow(name).P
    /\ Abort("FileNotFoundError")
    /\ UNCHANGED <<lc_table, jd_min, calls, fits>>

\* lines 90-92: no file name contains the object's name
NoFileFound ==
    /\ InLoop
    /\ dir_exists
    /\ period' = FirstRow(name).P
    /\ Skip("no_file")
    /\ UNCHANGED <<lc_table, jd_min, calls, fits>>

\* lines 98-108: the first matching file is neither .csv nor .ecsv, or
\* Table.read raises
UnreadableFile ==
    /\ InLoop
    /\ dir_exists
    /\ period' = FirstRow(name).P
    /\ \E how \in {"bad_extension", "read_error"} : Skip(how)
    /\ UNCHANGED <<lc_table, jd_min, calls, fits>>

\* row[period_column] of the current object (line 86)
RowPeriod == FirstRow(name).P

\* lines 110-112: period is None or NaN
NoValidPeriod(tables) ==
    /\ InLoop
    /\ dir_exists
    /\ IsNaN(RowPeriod)
    /\ \E t \in tables : lc_table' = t
    /\ period' = RowPeriod
    /\ Skip("no_period")
    /\ UNCHANGED <<jd_min, calls, fits>>

\* line 114 is reached with table t: the file was read and the period is
\* neither None nor NaN; find_jdmin is called with the row's period
CallFindJdmin(t) ==
    /\ InLoop
    /\ dir_exists
    /\ ~IsNaN(RowPeriod)
    /\ lc_table' = t
    /\ period' = RowPeriod
    /\ calls' = [calls EXCEPT ![name] = Append(@, RowPeriod)]

\* line 114, find_jdmin raising past its "except RuntimeError": nothing
\* between here and line 144 catches it
FindJdminRaises(tables) ==
    /\ InLoop
    /\ \E t \in tables, P \in {RowPeriod} :
            /\ CallFindJdmin(t)
            /\ find_jdmin_raises(t, P)
            /\ fits' = [fits EXCEPT ![name] = IF Len(t) = 0 THEN @ ELSE @ + 1]
            /\ Abort("find_jdmin_raised")
            /\ UNCHANGED jd_min

\* A fit that does not converge leaving the for loop like any other
\* exception, instead of being turned into None by find_jdmin.
NoJdminAborts(tables) ==
    /\ InLoop
    /\ \E t \in tables, P \in {RowPeriod} :
            /\ CallFindJdmin(t)
            /\ ~find_jdmin_raises(t, P)
            /\ None \in find_jdmin(t, P)
            /\ jd_min' = None
            /\ fits' = [fits EXCEPT ![name] = @ + 1]
            /\ Abort("no_jd_min")

\* lines 114-117: find_jdmin returned None
NoJdmin(tables) ==
    /\ InLoop
    /\ \E t \in tables, P \in {RowPeriod} :
            /\ CallFindJdmin(t)
            /\ ~find_jdmin_raises(t, P)
            /\ None \in find_jdmin(t, P)
            /\ jd_min' = None
            /\ fits' = [fits EXCEPT ![name] = @ + 1]
            /\ Skip("no_jd_min")

\* lines 114-133: the epoch is fitted, the curve folded, sorted and written
WriteCurve(tables) ==
    /\ InLoop
    /\ \E t \in tables, P \in {RowPeriod} :
            /\ CallFindJdmin(t)
            /\ ~find_jdmin_raises(t, P)
            /\ \E epoch \in find_jdmin(t, P) \ {None} :
                  /\ jd_min' = epoch
                  /\ \E rows \in {FoldedRows(t, epoch, P)} :
                        \E p \in ArgSorts(rows) :
                            /\ sort_index' = p
                            /\ output_table' = ApplyIndex(rows, p)
            /\ fits' = [fits EXCEPT ![name] = @ + 1]
            /\ written' = written \cup {name}
            /\ processed_objects' = Append(processed_objects, name)
            /\ idx' = idx + 1
            /\ outcome' = [outcome EXCEPT ![name] = "written"]
            /\ UNCHANGED <<pc, input_kind, input_table, dir_exists, unique_names,
                           result, vsxVars, restVars>>

\* lines 121-136: output_table.write raises (the output directory is not
\* there, the disk is full); "except Exception" takes the loop on
WriteFails(tables) ==
    /\ InLoop
    /\ \E t \in tables, P \in {RowPeriod} :
            /\ CallFindJdmin(t)
            /\ ~find_jdmin_raises(t, P)
            /\ \E epoch \in find_jdmin(t, P) \ {None} : jd_min' = epoch
            /\ fits' = [fits EXCEPT ![name] = @ + 1]
            /\ Skip("processing_error")

\* line 142: return processed_objects
ReturnList ==
    /\ pc = "loop"
    /\ idx > Len(unique_names)
    /\ pc' = "done"
    /\ result' = "list"
    /\ UNCHANGED <<input_kind, input_table, dir_exists, unique_names, idx,
                   processed_objects, written, lc_table, period, jd_min,
                   output_table, sort_index, calls, fits, outcome, vsxVars, restVars>>

Iterate(tables) ==
    \/ DirectoryNotFound
    \/ NoFileFound
    \/ UnreadableFile
    \/ NoValidPeriod(tables)
    \/ FindJdminRaises(tables)
    \/ NoJdmin(tables)
    \/ WriteCurve(tables)
    \/ WriteFails(tables)

Next == ReadInput \/ Iterate(BatchTables) \/ ReturnList

NextFold == ReadInput \/ Iterate(AllTables) \/ ReturnList

Spec == Init /\ [][Next]_vars

SpecFold == InitFold /\ [][NextFold]_vars

\* ------------------------------------------------- take_epoch_from_vsx
\* The 2450000 subtracted from the catalog epoch (line 57).
EpochOffset == 2450000
\* Epochs of maximum the catalog can hold (column _tab1_15), in days.
CatalogEpochs == {EpochOffset + 1, EpochOffset + 2}

VsxTables == UNION {[1..n -> Names] : n \in 0..MaxVsxRows}

FoldIdle ==
    /\ input_kind = "ok"
    /\ input_table = <<>>
    /\ dir_exists = TRUE
    /\ unique_names = <<>>
    /\ idx = 1
    /\ processed_objects = <<>>
    /\ result = "running"
    /\ written = {}
    /\ lc_table = <<>>
    /\ period = NaN
    /\ jd_min = None
    /\ output_table = <<>>
    /\ sort_index = <<>>
    /\ calls = NoCalls
    /\ fits = NoFits
    /\ outcome = NoOutcome

\* lines 45-46 done: the table has its names and a jd_min column of None
InitVsx ==
    /\ pc = "vsx_loop"
    /\ vsx_catalog \in [Names -> {None} \cup CatalogEpochs]
    /\ vsx_names \in VsxTables
    /\ vsx_jd_min = [i \in 1..Len(vsx_names) |-> None]
    /\ vsx_i = 1
    /\ vsx_found = [i \in 1..Len(vsx_names) |-> None]
    /\ FoldIdle
    /\ RestIdle

VsxInLoop == pc = "vsx_loop" /\ vsx_i <= Len(vsx_names)

\* line 57, input_table['jd_min'] = value: the scalar is assigned to the
\* column, that is to every row
AssignColumn(column, i, value) == [j \in 1..Len(column) |-> value]

\* lines 54-58: the query returns a row; its epoch is stored
VsxFound ==
    /\ VsxInLoop
    /\ vsx_catalog[vsx_names[vsx_i]] # None
    /\ vsx_jd_min' = AssignColumn(vsx_jd_min, vsx_i,
                                  vsx_catalog[vsx_names[vsx_i]] - EpochOffset)
    /\ vsx_found' = [vsx_found EXCEPT
                        ![vsx_i] = vsx_catalog[vsx_names[vsx_i]] - EpochOffset]
    /\ vsx_i' = vsx_i + 1
    /\ UNCHANGED <<pc, foldVars, restVars, vsx_catalog, vsx_names>>

\* lines 59-60: the query returns nothing
VsxNotFound ==
    /\ VsxInLoop
    /\ vsx_catalog[vsx_names[vsx_i]] = None
    /\ vsx_i' = vsx_i + 1
    /\ UNCHANGED <<pc, foldVars, restVars, vsx_catalog, vsx_names, vsx_jd_min, vsx_found>>

\* lines 61-63: the query raises (network, service); "continue"
VsxQueryError ==
    /\ VsxInLoop
    /\ vsx_i' = vsx_i + 1
    /\ UNCHANGED <<pc, foldVars, restVars, vsx_catalog, vsx_names, vsx_jd_min, vsx_found>>

\* lines 68-72: the table is written and returned
VsxReturn ==
    /\ pc = "vsx_loop"
    /\ vsx_i > Len(vsx_names)
    /\ pc' = "vsx_done"
    /\ UNCHANGED <<foldVars, vsxVars, restVars>>

NextVsx == VsxFound \/ VsxNotFound \/ VsxQueryError \/ VsxReturn

SpecVsx == InitVsx /\ [][NextVsx]_vars

\* ------------------------------------ folding two samples k periods apart
\* Sample times: every float from 0 to 2.0.
PhaseTimes == {n \in 0..(2 * One) : Representable(n)}
\* Periods above zero: 0.25, 0.5, 1.0.
PhasePeriods == {One \div 4, One \div 2, One}
PhaseEpochs == {0, 1, 2}

\* The time of the second sample, t + k * period, a float itself.
SecondJd == ph_jd + ph_k * ph_period

InitPhase ==
    /\ pc = "phase_start"
    /\ ph_jd \in PhaseTimes
    /\ ph_k \in (0 - MaxK)..MaxK
    /\ ph_period \in PhasePeriods
    /\ ph_epoch \in PhaseEpochs
    /\ SecondJd >= 0
    /\ Representable(SecondJd)
    /\ ph_phase = <<>>
    /\ FoldIdle
    /\ VsxIdle
    /\ FilterIdle
    /\ SimbadIdle
    /\ GaiaIdle

\* lines 124-125 applied to the two samples
FoldPairWith(t1, t2, epoch, P) == <<Phase(t1, epoch, P), Phase(t2, epoch, P)>>

FoldPair ==
    /\ pc = "phase_start"
    /\ ph_phase' = FoldPairWith(ph_jd, SecondJd, ph_epoch, ph_period)
    /\ pc' = "phase_done"
    /\ UNCHANGED <<ph_jd, ph_k, ph_period, ph_epoch, othersOfPhase>>

NextPhase == FoldPair

SpecPhase == InitPhase /\ [][NextPhase]_vars

\* ------------------------------------------------------ filter_dataframe
\* A cell of the frame: a number, a string that reads as that number, a
\* string that reads as no number, or a missing value (NaN).
Num(v) == [t |-> "num", v |-> v]
Str(v) == [t |-> "str", v |-> v]
Txt(v) == [t |-> "txt", v |-> v]
Missing == [t |-> "nan", v |-> 0]

\* The columns of the CSV file: QT holds strings, P holds numbers.
Columns == {"QT", "P"}
\* The columns a filter can name; X is not in the file.
FilterColumns == Columns \cup {"X"}

CsvRowValues == [QT : {Txt(1), Str(1)}, P : {Num(1), Num(2), Num(3)}]
\* pd.read_csv reads a column as numbers when every entry reads as a
\* number: a column holds a numeric string only next to a string that
\* reads as no number.
ReadableFrame(frame) ==
    (\E i \in 1..Len(frame) : frame[i].QT.t = "str")
        => \E i \in 1..Len(frame) : frame[i].QT.t = "txt"

CsvFrames ==
    {frame \in UNION {[1..n -> CsvRowValues] : n \in 0..MaxDfRows} :
        ReadableFrame(frame)}

\* Filter values: two lists, a 2-tuple of numbers, a 2-tuple of strings,
\* and a value that is neither a list nor a 2-tuple.
FilterValues ==
    { [kind |-> "list", vals |-> {Txt(1)}, lo |-> Missing, hi |-> Missing],
      [kind |-> "list", vals |-> {Num(1), Num(3)}, lo |-> Missing, hi |-> Missing],
      [kind |-> "tuple2", vals |-> {}, lo |-> Num(1), hi |-> Num(2)],
      [kind |-> "tuple2", vals |-> {}, lo |-> Txt(1), hi |-> Txt(2)],
      [kind |-> "other", vals |-> {}, lo |-> Missing, hi |-> Missing] }

\* filter_dict.items(): a dictionary has each key once
FilterDicts ==
    UNION {{items \in [1..n -> [column : FilterColumns, value : FilterValues]] :
                \A i, j \in 1..n : items[i].column = items[j].column => i = j}
           : n \in 0..MaxFilters}

InitFilter ==
    /\ pc = "filter_start"
    /\ csv_rows \in CsvFrames
    /\ csv_kind \in {"ok", "not_found", "parse_error", "other_error"}
    /\ csv_kind # "ok" => csv_rows = <<>>
    /\ df = <<>>
    /\ filter_items \in FilterDicts
    /\ filter_i = 1
    /\ filtered_rows = <<>>
    /\ filtered_df = <<>>
    /\ filter_result = "running"
    /\ saved = FALSE
    /\ FoldIdle
    /\ VsxIdle
    /\ PhaseIdle
    /\ SimbadIdle
    /\ GaiaIdle

\* pd.to_numeric(..., errors='coerce') of one cell
to_numeric(cell) ==
    IF cell.t = "num" THEN cell
    ELSE IF cell.t = "str" THEN Num(cell.v)
    ELSE Missing

\* df[column] = pd.to_numeric(df[column], errors='coerce')
Coerce(frame, column) ==
    [i \in 1..Len(frame) |-> [frame[i] EXCEPT ![column] = to_numeric(@)]]

\* df[column].isin(filter_value)
isin(frame, column, vals) == [i \in 1..Len(frame) |-> frame[i][column] \in vals]

\* An ordering comparison of a numeric column with a string raises
\* TypeError.
ComparisonRaises(lo, hi) == lo.t \in {"str", "txt"} \/ hi.t \in {"str", "txt"}

\* (value >= min_val) & (value <= max_val) of one cell of a numeric column
Between(cell, lo, hi) ==
    IF cell.t = "num" /\ lo.t = "num" /\ hi.t = "num"
    THEN lo.v <= cell.v /\ cell.v <= hi.v
    ELSE FALSE

\* filtered_rows &= other
MaskAnd(m, other) == [i \in 1..Len(m) |-> m[i] /\ other[i]]

\* df[filtered_rows]: the rows the mask keeps, in the order of the frame
KeepRows(frame, m) ==
    [k \in 1..Cardinality({i \in 1..Len(frame) : m[i]}) |->
        frame[SortedSeq({i \in 1..Len(frame) : m[i]})[k]]]

\* lines 30-40: pd.read_csv raises
ReadCsvFails ==
    /\ pc = "filter_start"
    /\ csv_kind # "ok"
    /\ filter_result' = "None"
    /\ pc' = "filter_done"
    /\ UNCHANGED <<csv_rows, csv_kind, df, filter_items, filter_i,
                   filtered_rows, filtered_df, saved, othersOfFilter>>

\* lines 31, 42: the frame is read and the mask is all True
ReadCsv ==
    /\ pc = "filter_start"
    /\ csv_kind = "ok"
    /\ df' = csv_rows
    /\ filtered_rows' = [i \in 1..Len(csv_rows) |-> TRUE]
    /\ pc' = "filter_loop"
    /\ UNCHANGED <<csv_rows, csv_kind, filter_items, filter_i, filtered_df,
                   filter_result, saved, othersOfFilter>>

InFilterLoop == pc = "filter_loop" /\ filter_i <= Len(filter_items)

column == filter_items[filter_i].column
filter_value == filter_items[filter_i].value

\* the for loop goes to the next item
NextItem ==
    /\ filter_i' = filter_i + 1
    /\ UNCHANGED <<pc, csv_rows, csv_kind, filter_items, filtered_df,
                   filter_result, saved, othersOfFilter>>

\* lines 45-47: the column is not in the frame
ColumnNotFound ==
    /\ InFilterLoop
    /\ column \notin Columns
    /\ NextItem
    /\ UNCHANGED <<df, filtered_rows>>

\* lines 49-50: a list filter
ListFilter ==
    /\ InFilterLoop
    /\ column \in Columns
    /\ filter_value.kind = "list"
    /\ filtered_rows' = MaskAnd(filtered_rows, isin(df, column, filter_value.vals))
    /\ NextItem
    /\ UNCHANGED df

\* lines 51-55: a 2-tuple filter whose comparisons do not raise
RangeFilter ==
    /\ InFilterLoop
    /\ column \in Columns
    /\ filter_value.kind = "tuple2"
    /\ ~ComparisonRaises(filter_value.lo, filter_value.hi)
    /\ df' = Coerce(df, column)
    /\ filtered_rows' =
          MaskAnd(filtered_rows,
                  [i \in 1..Len(df) |->
                      Between(to_numeric(df[i][column]),
                              filter_value.lo, filter_value.hi)])
    /\ NextItem

\* lines 51-58: the column is converted (line 54), then a comparison
\* raises TypeError (line 55) and the filter is skipped
RangeFilterRaises ==
    /\ InFilterLoop
    /\ column \in Columns
    /\ filter_value.kind = "tuple2"
    /\ ComparisonRaises(filter_value.lo, filter_value.hi)
    /\ df' = Coerce(df, column)
    /\ NextItem
    /\ UNCHANGED filtered_rows

\* lines 59-60: neither a list nor a 2-tuple
InvalidFilter ==
    /\ InFilterLoop
    /\ column \in Columns
    /\ filter_value.kind = "other"
    /\ NextItem
    /\ UNCHANGED <<df, filtered_rows>>

\* lines 62-73: the rows are selected, the frame is saved when a path is
\* given and the save does not fail, and the frame is returned
FilterReturn ==
    /\ pc = "filter_loop"
    /\ filter_i > Len(filter_items)
    /\ filtered_df' = KeepRows(df, filtered_rows)
    /\ saved' \in BOOLEAN
    /\ filter_result' = "frame"
    /\ pc' = "filter_done"
    /\ UNCHANGED <<csv_rows, csv_kind, df, filter_items, filter_i,
                   filtered_rows, othersOfFilter>>

NextFilter ==
    \/ ReadCsvFails
    \/ ReadCsv
    \/ ColumnNotFound
    \/ ListFilter
    \/ RangeFilter
    \/ RangeFilterRaises
    \/ InvalidFilter
    \/ FilterReturn

SpecFilter == InitFilter /\ [][NextFilter]_vars

\* -------------------------------------------- retrieve_coord_from_simbad
SimbadNames == {1, 2, 3}
\* A coordinate of the input: missing (NaN) or filled.
InputCoords == {NaN, 1}
\* What SIMBAD holds for a name: no row whose MAIN_ID is the name, or a
\* coordinate.
SimbadCoords == {NaN, 2}

\* Tables of distinct names.
SimbadTables ==
    UNION {{t \in [1..n -> [name : SimbadNames, ra : InputCoords, dec : InputCoords]] :
                \A i, j \in 1..n : t[i].name = t[j].name => i = j}
           : n \in 0..MaxSimbadRows}

InitSimbad ==
    /\ pc = "simbad_start"
    /\ sb_kind \in {"ok", "not_found", "parse_error", "bad_type", "no_name"}
    /\ sb_has_cols \in BOOLEAN
    /\ sb_input \in SimbadTables
    /\ sb_has_cols = FALSE
          => \A i \in 1..Len(sb_input) :
                IsNaN(sb_input[i].ra) /\ IsNaN(sb_input[i].dec)
    /\ sb_catalog \in [SimbadNames -> SimbadCoords]
    /\ sb_df = <<>>
    /\ sb_sent = <<>>
    /\ sb_query = "none"
    /\ merged_df = <<>>
    /\ sb_calls = 0
    /\ sb_result = "running"
    /\ FoldIdle
    /\ VsxIdle
    /\ PhaseIdle
    /\ FilterIdle
    /\ GaiaIdle

\* lines 49-56
ra_dec_empty(has_cols, rows) ==
    IF has_cols
    THEN \A i \in 1..Len(rows) : IsNaN(rows[i].ra) /\ IsNaN(rows[i].dec)
    ELSE TRUE

\* line 58: ra_col_exists and dec_col_exists and not ra_dec_empty
SkipsFilledRows(has_cols, rows) ==
    IF has_cols THEN ~ra_dec_empty(has_cols, rows) ELSE FALSE

\* line 60: the positions of the rows with a missing ra or dec, ascending
objects_to_query(rows) ==
    SortedSeq({i \in 1..Len(rows) : IsNaN(rows[i].ra) \/ IsNaN(rows[i].dec)})

\* line 64: objects_to_query[['name']]
df_to_query(rows) ==
    [k \in 1..Len(objects_to_query(rows)) |->
        [name |-> rows[objects_to_query(rows)[k]].name]]

\* line 83
object_names(rows) == [k \in 1..Len(rows) |-> rows[k].name]

\* lines 81-99: ra and dec are set to NaN, the left merge on
\* name = MAIN_ID adds RA and DEC and numbers the rows afresh from 0, and
\* the rename gives the frame a second ra and a second dec column (kept
\* here under the names RA and DEC)
Merged(rows, catalog) ==
    [k \in 1..Len(rows) |->
        [name |-> rows[k].name, ra |-> NaN, dec |-> NaN,
         RA |-> catalog[rows[k].name], DEC |-> catalog[rows[k].name]]]

\* df.update(other) where no coordinate of other is filled: rows are
\* matched by index label, and the labels of other are 0, 1, ...; the name
\* of other's k-th row goes to the k-th row of df
UpdateByLabel(rows, other) ==
    [i \in 1..Len(rows) |->
        IF i <= Len(other) THEN [rows[i] EXCEPT !.name = other[i].name]
        ELSE rows[i]]

SimbadReturns(how) ==
    /\ pc' = "simbad_done"
    /\ sb_result' = how
    /\ UNCHANGED <<sb_kind, sb_has_cols, sb_input, sb_catalog, othersOfSimbad>>

\* lines 24-44: the input is no file name and no frame, cannot be read, or
\* has no name column
SimbadRejects ==
    /\ pc = "simbad_start"
    /\ sb_kind # "ok"
    /\ sb_calls' = 1
    /\ SimbadReturns("None")
    /\ UNCHANGED <<sb_df, sb_sent, sb_query, merged_df>>

\* lines 58-62: no row misses a coordinate
SimbadNothingMissing ==
    /\ pc = "simbad_start"
    /\ sb_kind = "ok"
    /\ SkipsFilledRows(sb_has_cols, sb_input)
    /\ Len(objects_to_query(sb_input)) = 0
    /\ sb_df' = sb_input
    /\ sb_calls' = 1
    /\ SimbadReturns("df")
    /\ UNCHANGED <<sb_sent, sb_query, merged_df>>

\* line 65: the nested call gets a frame with the name column only, so
\* its line 58 is false and it goes on to the query of line 86
NestedCall ==
    /\ pc = "simbad_start"
    /\ sb_kind = "ok"
    /\ SkipsFilledRows(sb_has_cols, sb_input)
    /\ Len(objects_to_query(sb_input)) > 0
    /\ ~SkipsFilledRows(FALSE, df_to_query(sb_input))
    /\ sb_sent' = object_names(df_to_query(sb_input))
    /\ sb_calls' = 2

\* lines 65-66, 85-93, 115-117: the query of the nested call fails, the
\* nested call returns None, df.update(None) raises
NestedQueryFails ==
    /\ NestedCall
    /\ sb_query' = "failed"
    /\ sb_df' = sb_input
    /\ SimbadReturns("None")
    /\ UNCHANGED merged_df

\* lines 65-66, 115-117: the nested call returns its merged frame, and
\* df.update raises on the two ra and two dec columns of that frame
NestedUpdateRaises ==
    /\ NestedCall
    /\ sb_query' = "ok"
    /\ merged_df' = Merged(df_to_query(sb_input), sb_catalog)
    /\ sb_df' = sb_input
    /\ SimbadReturns("None")

\* lines 65-79: the nested call found no coordinate; a pandas whose update
\* skips a column that is all NaN does not raise and updates the names
NestedNamesUpdated ==
    /\ NestedCall
    /\ \A k \in 1..Len(objects_to_query(sb_input)) :
            IsNaN(sb_catalog[sb_input[objects_to_query(sb_input)[k]].name])
    /\ sb_query' = "ok"
    /\ merged_df' = Merged(df_to_query(sb_input), sb_catalog)
    /\ sb_df' = UpdateByLabel(sb_input, Merged(df_to_query(sb_input), sb_catalog))
    /\ SimbadReturns("df")

\* line 86: every name is given to SIMBAD
DirectCall ==
    /\ pc = "simbad_start"
    /\ sb_kind = "ok"
    /\ ~SkipsFilledRows(sb_has_cols, sb_input)
    /\ sb_sent' = object_names(sb_input)
    /\ sb_calls' = 1
    /\ sb_df' = sb_input

\* lines 85-93: the query raises or returns None
DirectQueryFails ==
    /\ DirectCall
    /\ sb_query' = "failed"
    /\ SimbadReturns("None")
    /\ UNCHANGED merged_df

\* lines 95-113: the merged frame is returned
DirectQuery ==
    /\ DirectCall
    /\ sb_query' = "ok"
    /\ merged_df' = Merged(sb_input, sb_catalog)
    /\ SimbadReturns("merged_df")

NextSimbad ==
    \/ SimbadRejects
    \/ SimbadNothingMissing
    \/ NestedQueryFails
    \/ NestedUpdateRaises
    \/ NestedNamesUpdated
    \/ DirectQueryFails
    \/ DirectQuery

SpecSimbad == InitSimbad /\ [][NextSimbad]_vars

\* ------------------------------------------------------ gaia_cross_match
\* max_attempts = 3 (line 49)
max_attempts == 3

InitGaia ==
    /\ pc = "gaia_start"
    /\ g_input \in {"ok", "not_found", "parse_error", "bad_type", "no_columns"}
    /\ g_output \in BOOLEAN
    /\ g_saved = FALSE
    /\ g_logged_in = FALSE
    /\ g_submitted = FALSE
    /\ g_attempt = 0
    /\ g_waits = 0
    /\ g_checks = <<>>
    /\ g_found = FALSE
    /\ g_queried = FALSE
    /\ g_logouts = 0
    /\ g_pending = "none"
    /\ g_result = "running"
    /\ FoldIdle
    /\ VsxIdle
    /\ PhaseIdle
    /\ FilterIdle
    /\ SimbadIdle

\* a return statement inside the try: the finally clause runs next
GaiaReturn(value) ==
    /\ g_pending' = value
    /\ pc' = "gaia_finally"
    /\ UNCHANGED <<g_input, g_output, g_logouts, g_result, othersOfGaia>>

\* a step that neither returns nor touches the loop
GaiaGoes(where) ==
    /\ pc' = where
    /\ UNCHANGED <<g_input, g_output, g_logouts, g_pending, g_result,
                   othersOfGaia>>

\* lines 53-70: the input is rejected before Gaia.login
GaiaRejects ==
    /\ pc = "gaia_start"
    /\ g_input # "ok"
    /\ GaiaReturn("None")
    /\ UNCHANGED <<g_saved, g_logged_in, g_submitted, g_attempt, g_waits,
                   g_checks, g_found, g_queried>>

\* line 72: Gaia.login returns
GaiaLogin ==
    /\ pc = "gaia_start"
    /\ g_input = "ok"
    /\ g_logged_in' = TRUE
    /\ GaiaGoes("gaia_prepare")
    /\ UNCHANGED <<g_saved, g_submitted, g_attempt, g_waits, g_checks,
                   g_found, g_queried>>

\* lines 72, 170-172: Gaia.login raises
GaiaLoginRaises ==
    /\ pc = "gaia_start"
    /\ g_input = "ok"
    /\ GaiaReturn("None")
    /\ UNCHANGED <<g_saved, g_logged_in, g_submitted, g_attempt, g_waits,
                   g_checks, g_found, g_queried>>

\* lines 75-128: listing or deleting the old table, reading the
\* coordinates, the upload, the flags or the cross-match raises or fails
GaiaPrepareFails ==
    /\ pc = "gaia_prepare"
    /\ GaiaReturn("None")
    /\ UNCHANGED <<g_saved, g_logged_in, g_submitted, g_attempt, g_waits,
                   g_checks, g_found, g_queried>>

\* lines 75-125: the table is uploaded and the cross-match job submitted
GaiaSubmit ==
    /\ pc = "gaia_prepare"
    /\ g_submitted' = TRUE
    /\ g_attempt' = 0
    /\ GaiaGoes("gaia_loop")
    /\ UNCHANGED <<g_saved, g_logged_in, g_waits, g_checks, g_found, g_queried>>

\* lines 131-132: the next attempt begins with time.sleep(wait_time)
GaiaSleep ==
    /\ pc = "gaia_loop"
    /\ g_attempt < max_attempts
    /\ g_waits' = g_waits + 1
    /\ GaiaGoes("gaia_check")
    /\ UNCHANGED <<g_saved, g_logged_in, g_submitted, g_attempt, g_checks,
                   g_found, g_queried>>

\* lines 134-141: the listing holds the cross-match table; both loops break
GaiaTableFound ==
    /\ pc = "gaia_check"
    /\ g_checks' = Append(g_checks, "found")
    /\ g_found' = TRUE
    /\ GaiaGoes("gaia_retrieve")
    /\ UNCHANGED <<g_saved, g_logged_in, g_submitted, g_attempt, g_waits,
                   g_queried>>

\* lines 134-140: the listing does not hold the table; "continue"
GaiaTableNotFound ==
    /\ pc = "gaia_check"
    /\ g_checks' = Append(g_checks, "not_found")
    /\ g_attempt' = g_attempt + 1
    /\ GaiaGoes("gaia_loop")
    /\ UNCHANGED <<g_saved, g_logged_in, g_submitted, g_waits, g_found,
                   g_queried>>

\* lines 142-146: Gaia.load_tables raises; "continue"
GaiaListingError ==
    /\ pc = "gaia_check"
    /\ g_checks' = Append(g_checks, "error")
    /\ g_attempt' = g_attempt + 1
    /\ GaiaGoes("gaia_loop")
    /\ UNCHANGED <<g_saved, g_logged_in, g_submitted, g_waits, g_found,
                   g_queried>>

\* The loop running out and the function going on to the results.
GaiaGivesUpAndQueries ==
    /\ pc = "gaia_loop"
    /\ g_attempt = max_attempts
    /\ GaiaGoes("gaia_retrieve")
    /\ UNCHANGED <<g_saved, g_logged_in, g_submitted, g_attempt, g_waits,
                   g_checks, g_found, g_queried>>

\* lines 147-149: the loop ran out without a break; return None
GaiaGivesUp ==
    /\ pc = "gaia_loop"
    /\ g_attempt = max_attempts
    /\ GaiaReturn("None")
    /\ UNCHANGED <<g_saved, g_logged_in, g_submitted, g_attempt, g_waits,
                   g_checks, g_found, g_queried>>

\* lines 152-165: the results are queried, saved when a file name is
\* given, and returned
GaiaRetrieve ==
    /\ pc = "gaia_retrieve"
    /\ g_queried' = TRUE
    /\ g_saved' = g_output
    /\ GaiaReturn("results")
    /\ UNCHANGED <<g_logged_in, g_submitted, g_attempt, g_waits, g_checks,
                   g_found>>

\* lines 152-168: the query or the save raises
GaiaRetrieveFails ==
    /\ pc = "gaia_retrieve"
    /\ g_queried' = TRUE
    /\ GaiaReturn("None")
    /\ UNCHANGED <<g_saved, g_logged_in, g_submitted, g_attempt, g_waits,
                   g_checks, g_found>>

\* lines 174-175: finally, Gaia.logout(); then the function returns
GaiaLogout ==
    /\ pc = "gaia_finally"
    /\ g_logouts' = g_logouts + 1
    /\ g_result' = g_pending
    /\ pc' = "gaia_done"
    /\ UNCHANGED <<g_input, g_output, g_saved, g_logged_in, g_submitted,
                   g_attempt, g_waits, g_checks, g_found, g_queried, g_pending,
                   othersOfGaia>>

NextGaia ==
    \/ GaiaRejects
    \/ GaiaLogin
    \/ GaiaLoginRaises
    \/ GaiaPrepareFails
    \/ GaiaSubmit
    \/ GaiaSleep
    \/ GaiaTableFound
    \/ GaiaTableNotFound
    \/ GaiaListingError
    \/ GaiaGivesUp
    \/ GaiaRetrieve
    \/ GaiaRetrieveFails
    \/ GaiaLogout

SpecGaia == InitGaia /\ [][NextGaia]_vars

\* ------------------------------------------------------------ properties
\* The last iteration of the loop wrote a curve: lc_table, period, jd_min,
\* output_table and sort_index are those of the object written.
JustWritten ==
    /\ result # "None"
    /\ idx > 1
    /\ outcome[unique_names[idx - 1]] = "written"

Rows == 1..Len(output_table)

LeastFlux(table) ==
    CHOOSE m \in {table[i].flux : i \in 1..Len(table)} :
        \A i \in 1..Len(table) : ~FLt(table[i].flux, m)

\* C1: with a finite epoch and a finite period above zero, every phase of
\* a written curve is at least 0 and strictly below 1.
C1_PhaseInUnitInterval ==
    (JustWritten /\ IsFinite(jd_min) /\ IsFinite(period) /\ FLt(0, period))
        => \A i \in Rows :
              /\ ~FLt(output_table[i].phase, 0)
              /\ FLt(output_table[i].phase, One)

C8_SortedByPhase ==
    JustWritten
        => /\ \A i, j \in Rows :
                 i < j => output_table[i].phase <= output_table[j].phase
           /\ \A i \in Rows : IsFinite(output_table[i].phase)
           /\ sort_index \in Permutations(1..Len(lc_table))
           /\ output_table =
                 ApplyIndex(FoldedRows(lc_table, jd_min, period), sort_index)

\* A curve is written whose rows the sort had to reorder.
C8_Reordered ==
    /\ JustWritten
    /\ \E i \in Rows : sort_index[i] # i
    /\ \E i, j \in Rows : output_table[i].phase < output_table[j].phase

\* C9: rows of a written curve with equal phase keep the order their
\* samples had in the input.
C9_StableSort ==
    JustWritten
        => \E p \in Permutations(Rows) :
              /\ \A i, j \in Rows :
                    (i < j /\ output_table[i].phase = output_table[j].phase)
                        => p[i] < p[j]
              /\ output_table =
                    ApplyIndex(FoldedRows(lc_table, jd_min, period), p)

Listed(n) == pc # "start" /\ \E k \in 1..Len(unique_names) : unique_names[k] = n

\* C3: for an object whose row carries a finite epoch, find_jdmin is not
\* called and no fit runs.
C3_SuppliedEpochUsed ==
    \A n \in Names :
        (Listed(n) /\ IsFinite(FirstRow(n).jd_min))
            => calls[n] = <<>> /\ fits[n] = 0

\* C4: an object with a period above zero whose fit window holds no sample
\* gets no curve, and the batch goes on: it does not return None.
C4_EmptyWindowSkipsObject ==
    \A n \in Names :
        (/\ outcome[n] = "find_jdmin_raised"
         /\ Len(lc_table) > 0
         /\ FLt(0, period)
         /\ mask(lc_table, period) = {})
            => n \notin written /\ result # "None"

\* C5: find_jdmin is only ever called with a finite period above zero.
C5_InvalidPeriodRejected ==
    \A n \in Names :
        \A k \in 1..Len(calls[n]) :
            IsFinite(calls[n][k]) /\ FLt(0, calls[n][k])

\* C6: no curve is written for a series whose flux is constant.
C6_FlatSeriesRejected ==
    JustWritten => LeastFlux(lc_table) # MaxFlux(lc_table)

AbortOutcomes == {"FileNotFoundError", "find_jdmin_raised"}

\* C7: an object whose fit did not converge had exactly one call of
\* find_jdmin and one fit, has no curve, is not in the returned list, and
\* the loop has moved past it; if the batch returned None, another object
\* caused that.
C7_NoJdminSkipsObject ==
    \A n \in Names :
        outcome[n] = "no_jd_min"
            => /\ fits[n] = 1
               /\ Len(calls[n]) = 1
               /\ n \notin written
               /\ \A k \in 1..Len(processed_objects) : processed_objects[k] # n
               /\ \E k \in 1..Len(unique_names) : unique_names[k] = n /\ k < idx
               /\ result = "None"
                     => \E m \in Names \ {n} : outcome[m] \in AbortOutcomes

\* The fit of one object does not converge, the next object is written and
\* the batch returns its list.
C7_NextObjectWritten ==
    /\ pc = "done"
    /\ result = "list"
    /\ outcome[1] = "no_jd_min"
    /\ outcome[2] = "written"
    /\ processed_objects = <<2>>

\* C10: after the loop, every row holds the epoch its own lookup returned,
\* and a row whose lookup returned nothing or failed holds None.
C10_RowKeepsOwnEpoch ==
    \A i \in 1..Len(vsx_names) : vsx_jd_min[i] = vsx_found[i]

\* No operation of the fold of a sample at time t rounds: t - epoch is a
\* float, so is the quotient by the period, and so is 1 + the remainder
\* when the remainder is negative.
ExactFold(t, epoch, P) ==
    /\ FSub(t, epoch) = t - epoch
    /\ FDiv(t - epoch, P) * P = (t - epoch) * One
    /\ Fmod1(FDiv(t - epoch, P)) < 0
          => Representable(Fmod1(FDiv(t - epoch, P)) + One)

\* C11 as the specification states it: the sample at t and the sample at
\* t + k * period fold to the same phase.
C11_SamePhase ==
    pc = "phase_done" => ph_phase[1] = ph_phase[2]

\* C11: the two samples fold to the same phase whenever no operation of
\* either fold rounds.
C11_SamePhaseWhenExact ==
    (/\ pc = "phase_done"
     /\ ExactFold(ph_jd, ph_epoch, ph_period)
     /\ ExactFold(SecondJd, ph_epoch, ph_period))
        => ph_phase[1] = ph_phase[2]

\* Two samples on opposite sides of the epoch, a negative whole number of
\* periods apart, are folded without rounding to a phase strictly between
\* 0 and 1.
C11_AcrossEpoch ==
    /\ pc = "phase_done"
    /\ ExactFold(ph_jd, ph_epoch, ph_period)
    /\ ExactFold(SecondJd, ph_epoch, ph_period)
    /\ ph_k < 0
    /\ SecondJd < ph_epoch
    /\ ph_epoch < ph_jd
    /\ 0 < ph_phase[1]
    /\ ph_phase[1] < One

SkipOutcomes == {"no_file", "bad_extension", "read_error", "no_period",
                 "no_jd_min", "processing_error"}

InList(n) == \E k \in 1..Len(processed_objects) : processed_objects[k] = n

\* C12: when the function returns a list, a name is in the list exactly
\* when its curve was written; no name is in the list twice; find_jdmin ran
\* at most once per name; a skipped object is not in the list.
C12_ListIsWhatWasWritten ==
    result = "list"
        => /\ \A n \in Names : InList(n) <=> n \in written
           /\ \A i, j \in 1..Len(processed_objects) :
                 processed_objects[i] = processed_objects[j] => i = j
           /\ \A n \in Names : Len(calls[n]) <= 1 /\ fits[n] <= 1
           /\ \A n \in Names : outcome[n] \in SkipOutcomes => ~InList(n)

\* The input table has two rows of the same name, the curve of that name
\* is written and the list returned holds the name once.
C12_DuplicateRowsListedOnce ==
    /\ pc = "done"
    /\ result = "list"
    /\ Len(input_table) = 2
    /\ input_table[1].name = input_table[2].name
    /\ processed_objects = <<input_table[1].name>>
    /\ input_table[1].name \in written

\* Whether a row of the input passes one entry of the dictionary, read in
\* the way most favourable to the code: a 2-tuple compares the number the
\* cell reads as, and a 2-tuple whose bounds are strings excludes no row.
PassesItem(row, item) ==
    IF item.column \notin Columns THEN TRUE
    ELSE IF item.value.kind = "list" THEN row[item.column] \in item.value.vals
    ELSE IF item.value.kind = "tuple2"
              /\ ~ComparisonRaises(item.value.lo, item.value.hi)
         THEN Between(to_numeric(row[item.column]),
                      item.value.lo, item.value.hi)
    ELSE TRUE

PassesAll(row) ==
    \A k \in 1..Len(filter_items) : PassesItem(row, filter_items[k])

\* C13: the frame returned holds exactly the rows of the input that pass
\* every applicable filter, in their original order and as they were in
\* the input.
C13_ExactRowsOfInput ==
    filter_result = "frame"
        => filtered_df =
              KeepRows(csv_rows, [i \in 1..Len(csv_rows) |-> PassesAll(csv_rows[i])])

HadBoth(row) == ~IsNaN(row.ra) /\ ~IsNaN(row.dec)

\* C14: when the nested call was made and its query answered, only the
\* names of the rows missing a coordinate were sent, no third call was
\* made, a table is returned, every row that had both coordinates is in
\* it unchanged, and every row that missed one has its name and the
\* coordinates SIMBAD holds for it.
C14_MissingRowsFilled ==
    (pc = "simbad_done" /\ sb_calls = 2 /\ sb_query = "ok")
        => /\ sb_sent = object_names(df_to_query(sb_input))
           /\ sb_result = "df"
           /\ \A i \in 1..Len(sb_input) :
                 IF HadBoth(sb_input[i])
                 THEN sb_df[i] = sb_input[i]
                 ELSE /\ sb_df[i].name = sb_input[i].name
                      /\ ~IsNaN(sb_catalog[sb_input[i].name])
                            => /\ sb_df[i].ra = sb_catalog[sb_input[i].name]
                               /\ sb_df[i].dec = sb_catalog[sb_input[i].name]

SomeCheckFound == \E k \in 1..Len(g_checks) : g_checks[k] = "found"

\* C15: the table is checked for only after the job is submitted and at
\* most max_attempts times, a wait before every check; the results are
\* queried only if a check found the table; when the loop ends with no
\* check having found it, max_attempts checks were made, None is returned
\* and nothing was queried; and the function has returned after a login
\* only with Gaia.logout called.
C15_ChecksThenLogout ==
    /\ Len(g_checks) <= max_attempts
    /\ Len(g_checks) > 0 => g_submitted
    /\ g_waits = Len(g_checks) + (IF pc = "gaia_check" THEN 1 ELSE 0)
    /\ g_queried => (g_found /\ SomeCheckFound)
    /\ (g_submitted /\ ~SomeCheckFound /\ pc \in {"gaia_finally", "gaia_done"})
          => /\ g_pending = "None"
             /\ ~g_queried
             /\ Len(g_checks) = max_attempts
    /\ (g_result # "running" /\ g_logged_in) => g_logouts >= 1

\* Three checks, one of them a listing error, none finding the table: the
\* function has returned None, queried nothing and logged out.
C15_GaveUpAfterListingError ==
    /\ pc = "gaia_done"
    /\ g_logged_in
    /\ Len(g_checks) = max_attempts
    /\ \E k \in 1..Len(g_checks) : g_checks[k] = "error"
    /\ ~SomeCheckFound
    /\ g_result = "None"
    /\ ~g_queried
    /\ g_logouts = 1

====
